---------------------------- MODULE Spec2Model ----------------------------
(***************************************************************************)
(* A model of monte_carlo_sim.py: the team records folded from the         *)
(* schedule, the strength model with its American odds, the Poisson score  *)
(* simulation with its aggregation, the player projection, and the         *)
(* pipeline of main() that chains them.                                    *)
(*                                                                         *)
(* Python floats and numpy float64 are IEEE-754 binary64.  The model       *)
(* computes them bit for bit: a float is sign, 53-bit mantissa and         *)
(* exponent, and every operation rounds to nearest, ties to even.          *)
(* Mantissas do not fit the model checker's integers, so they are held as  *)
(* little-endian sequences of 15-bit limbs.  Exponents stay far inside the *)
(* binary64 range for every input drawn here, so overflow and subnormals   *)
(* do not arise; a division by zero is reported by the caller.             *)
(***************************************************************************)
EXTENDS Integers, Sequences, FiniteSets, Bags, TLC

VARIABLES
    pc,                 \* where the program is: see each action's guard
    error,              \* the exception that ended the run, or "none"
    data_files,         \* the data files that exist
    stats_df,           \* the player table read by load_data
    schedule_df,        \* the schedule table read by load_data
    iterrows,           \* rows the loop of calculate_team_records has taken
    team_stats,         \* calculate_team_stats: team -> TeamSummary
    team_records,       \* calculate_team_records: team -> TeamRecord
    selected_date,      \* the date typed at the prompt
    games_on_date,      \* the schedule rows of that date
    home_team,          \* the teams of the game in hand
    away_team,
    prediction,         \* what predict_game_winner returned or raised
    num_simulations,    \* simulate_scores' trial count
    score_simulations,  \* simulate_scores' trials, as the bag of its pairs
    simulation,         \* what simulate_scores returned
    top_players,        \* calculate_player_probabilities' results
    report_file         \* the report written by write_to_text_file

vars == <<pc, error, data_files, stats_df, schedule_df, iterrows, team_stats,
          team_records, selected_date, games_on_date, home_team, away_team,
          prediction, num_simulations, score_simulations, simulation,
          top_players, report_file>>

----------------------------------------------------------------------------
(* Natural numbers of any size: little-endian limbs, no leading zero limb. *)

Limb == 2^15

RECURSIVE BigTrim(_)
BigTrim(a) ==
    IF a = <<>> THEN a
    ELSE IF a[Len(a)] = 0 THEN BigTrim(SubSeq(a, 1, Len(a) - 1)) ELSE a

RECURSIVE BigFromNat(_)
BigFromNat(n) ==
    IF n = 0 THEN <<>> ELSE <<n % Limb>> \o BigFromNat(n \div Limb)

RECURSIVE BigToNat(_)
BigToNat(a) ==
    IF a = <<>> THEN 0 ELSE Head(a) + Limb * BigToNat(Tail(a))

BigRest(a) == IF a = <<>> THEN a ELSE Tail(a)

BigLow(a) == IF a = <<>> THEN 0 ELSE Head(a)

RECURSIVE BigAddC(_, _, _)
BigAddC(a, b, c) ==
    IF a = <<>> /\ b = <<>> THEN (IF c = 0 THEN <<>> ELSE <<c>>)
    ELSE LET s == BigLow(a) + BigLow(b) + c
         IN  <<s % Limb>> \o BigAddC(BigRest(a), BigRest(b), s \div Limb)

BigAdd(a, b) == BigAddC(a, b, 0)

RECURSIVE BigSubC(_, _, _)
BigSubC(a, b, c) ==
    IF a = <<>> THEN <<>>
    ELSE LET d == Head(a) - BigLow(b) - c
         IN  <<(d + Limb) % Limb>> \o
             BigSubC(Tail(a), BigRest(b), IF d < 0 THEN 1 ELSE 0)

\* a - b, for a >= b
BigSub(a, b) == BigTrim(BigSubC(a, b, 0))

RECURSIVE BigCmpAt(_, _, _)
BigCmpAt(a, b, i) ==
    IF i = 0 THEN 0
    ELSE IF a[i] < b[i] THEN -1
    ELSE IF a[i] > b[i] THEN 1
    ELSE BigCmpAt(a, b, i - 1)

\* -1, 0 or 1 as a < b, a = b or a > b
BigCmp(a, b) ==
    IF Len(a) < Len(b) THEN -1
    ELSE IF Len(a) > Len(b) THEN 1
    ELSE BigCmpAt(a, b, Len(a))

RECURSIVE BigMulSmallC(_, _, _)
BigMulSmallC(a, k, c) ==
    IF a = <<>> THEN (IF c = 0 THEN <<>> ELSE <<c>>)
    ELSE LET p == Head(a) * k + c
         IN  <<p % Limb>> \o BigMulSmallC(Tail(a), k, p \div Limb)

\* a * k, for 0 <= k <= Limb
BigMulSmall(a, k) == BigTrim(BigMulSmallC(a, k, 0))

RECURSIVE BigMulAcc(_, _)
BigMulAcc(a, b) ==
    IF b = <<>> THEN <<>>
    ELSE IF Head(b) = 0 THEN <<0>> \o BigMulAcc(a, Tail(b))
    ELSE BigAdd(BigMulSmall(a, Head(b)), <<0>> \o BigMulAcc(a, Tail(b)))

BigMul(a, b) == BigTrim(BigMulAcc(a, b))

RECURSIVE BigDivSmallFrom(_, _, _, _)
BigDivSmallFrom(a, k, i, r) ==
    IF i = 0 THEN <<>>
    ELSE LET cur == r * Limb + a[i]
         IN  BigDivSmallFrom(a, k, i - 1, cur % k) \o <<cur \div k>>

\* a \div k, for 1 <= k <= Limb
BigDivSmall(a, k) == BigTrim(BigDivSmallFrom(a, k, Len(a), 0))

\* a * 2^n
BigShl(a, n) ==
    IF a = <<>> THEN a
    ELSE [i \in 1..(n \div 15) |-> 0] \o BigMulSmall(a, 2^(n % 15))

\* a \div 2^n
BigShr(a, n) ==
    IF Len(a) <= n \div 15 THEN <<>>
    ELSE BigDivSmall(SubSeq(a, (n \div 15) + 1, Len(a)), 2^(n % 15))

RECURSIVE SmallBitLen(_)
SmallBitLen(x) == IF x = 0 THEN 0 ELSE 1 + SmallBitLen(x \div 2)

\* the number of bits of a: 0 for 0
BigBitLen(a) ==
    IF a = <<>> THEN 0 ELSE 15 * (Len(a) - 1) + SmallBitLen(a[Len(a)])

RECURSIVE BigDivLoop(_, _)
\* st = <<remainder, divisor * 2^n, quotient so far>>; one quotient bit a step
BigDivLoop(st, n) ==
    IF n < 0 THEN st
    ELSE IF BigCmp(st[1], st[2]) >= 0
    THEN BigDivLoop(<<BigSub(st[1], st[2]), BigDivSmall(st[2], 2),
                      BigAdd(BigMulSmall(st[3], 2), <<1>>)>>, n - 1)
    ELSE BigDivLoop(<<st[1], BigDivSmall(st[2], 2),
                      BigMulSmall(st[3], 2)>>, n - 1)

\* <<a \div b, a % b>>, for b > 0: short division by a one-limb b, long
\* division otherwise
BigDivMod(a, b) ==
    LET n  == BigBitLen(a) - BigBitLen(b)
        st == BigDivLoop(<<a, BigShl(b, n), <<>> >>, n)
        q  == BigDivSmall(a, b[1])
    IN  IF n < 0 THEN <<(<<>>), a>>
        ELSE IF Len(b) = 1 THEN <<q, BigSub(a, BigMulSmall(q, b[1]))>>
        ELSE <<st[3], st[1]>>

RECURSIVE BigLowZeros(_)
\* the number of zero limbs at the low end of a > 0
BigLowZeros(a) == IF Head(a) # 0 THEN 0 ELSE 1 + BigLowZeros(Tail(a))

----------------------------------------------------------------------------
(* binary64: [neg, man, exp] is (-1)^neg * man * 2^exp, with man = 0 or    *)
(* 2^52 <= man < 2^53.                                                     *)

Precision == 53

FZero == [neg |-> FALSE, man |-> <<>>, exp |-> 0]

FIsZero(x) == x.man = <<>>

\* M * 2^E (increased by less than one unit of M when sticky) rounded to
\* nearest, ties to even. With sticky, M has more than Precision bits.
FRound(neg, M, E, sticky) ==
    IF M = <<>> THEN FZero
    ELSE LET n == BigBitLen(M) IN
         IF n <= Precision
         THEN [neg |-> neg, man |-> BigShl(M, Precision - n),
               exp |-> E - (Precision - n)]
         ELSE LET sh   == n - Precision
                  q    == BigShr(M, sh)
                  rem  == BigSub(M, BigShl(q, sh))
                  c    == BigCmp(rem, BigShl(<<1>>, sh - 1))
                  up   == c > 0 \/ (c = 0 /\ (sticky \/ q[1] % 2 = 1))
                  q2   == IF up THEN BigAdd(q, <<1>>) ELSE q
              IN  IF BigBitLen(q2) > Precision
                  THEN [neg |-> neg, man |-> BigShr(q2, 1), exp |-> E + sh + 1]
                  ELSE [neg |-> neg, man |-> q2, exp |-> E + sh]

\* the float of an integer
FInt(n) == FRound(n < 0, BigFromNat(IF n < 0 THEN -n ELSE n), 0, FALSE)

\* the float m * 2^e, for integers m and e
FScaled(m, e) == FRound(m < 0, BigFromNat(IF m < 0 THEN -m ELSE m), e, FALSE)

FNeg(x) == IF FIsZero(x) THEN x ELSE [x EXCEPT !.neg = ~x.neg]

FAbs(x) == [x EXCEPT !.neg = FALSE]

\* -1, 0, 1 as |x| < |y|, |x| = |y|, |x| > |y|
FCmpAbs(x, y) ==
    IF FIsZero(x) THEN (IF FIsZero(y) THEN 0 ELSE -1)
    ELSE IF FIsZero(y) THEN 1
    ELSE IF x.exp < y.exp THEN -1
    ELSE IF x.exp > y.exp THEN 1
    ELSE BigCmp(x.man, y.man)

\* -1, 0, 1 as x < y, x = y, x > y
FCmp(x, y) ==
    IF FIsZero(x) /\ FIsZero(y) THEN 0
    ELSE IF FIsZero(x) THEN (IF y.neg THEN 1 ELSE -1)
    ELSE IF FIsZero(y) THEN (IF x.neg THEN -1 ELSE 1)
    ELSE IF x.neg # y.neg THEN (IF x.neg THEN -1 ELSE 1)
    ELSE IF x.neg THEN -FCmpAbs(x, y) ELSE FCmpAbs(x, y)

FGt(x, y) == FCmp(x, y) > 0

FLe(x, y) == FCmp(x, y) <= 0

\* x + y without the final rounding: a float-shaped record whose mantissa
\* may have any number of bits
ExactAdd(x, y) ==
    IF FIsZero(x) THEN y
    ELSE IF FIsZero(y) THEN x
    ELSE LET e  == IF x.exp < y.exp THEN x.exp ELSE y.exp
             mx == BigShl(x.man, x.exp - e)
             my == BigShl(y.man, y.exp - e)
             c  == BigCmp(mx, my)
         IN  IF x.neg = y.neg
             THEN [neg |-> x.neg, man |-> BigAdd(mx, my), exp |-> e]
             ELSE IF c = 0 THEN FZero
             ELSE IF c > 0
             THEN [neg |-> x.neg, man |-> BigSub(mx, my), exp |-> e]
             ELSE [neg |-> y.neg, man |-> BigSub(my, mx), exp |-> e]

FAdd(x, y) ==
    LET s == ExactAdd(x, y) IN FRound(s.neg, s.man, s.exp, FALSE)

FSub(x, y) == FAdd(x, FNeg(y))

ExactMul(x, y) ==
    IF FIsZero(x) \/ FIsZero(y) THEN FZero
    ELSE [neg |-> x.neg # y.neg, man |-> BigMul(x.man, y.man),
          exp |-> x.exp + y.exp]

FMul(x, y) ==
    LET p == ExactMul(x, y) IN FRound(p.neg, p.man, p.exp, FALSE)

\* x / y, for y # 0: the quotient of the mantissas to at least three bits
\* more than the precision, the remainder as the sticky bit
FDiv(x, y) ==
    IF FIsZero(x) THEN FZero
    ELSE LET z  == BigLowZeros(y.man)
             d  == SubSeq(y.man, z + 1, Len(y.man))
             qr == BigDivMod(BigShl(x.man, Precision + 3), d)
         IN  FRound(x.neg # y.neg, qr[1],
                    x.exp - (y.exp + 15 * z) - (Precision + 3),
                    qr[2] # <<>>)

\* int(x): the integer part, truncated toward zero
FTrunc(x) ==
    LET a == IF x.exp >= 0 THEN BigShl(x.man, x.exp)
             ELSE BigShr(x.man, -x.exp)
    IN  IF x.neg THEN -BigToNat(a) ELSE BigToNat(a)

\* whether the (possibly unrounded) value x is an integer
ExactIsInt(x) ==
    x.exp >= 0 \/ BigShl(BigShr(x.man, -x.exp), -x.exp) = x.man

\* floor(x): the greatest integer not above x
FFloor(x) ==
    IF x.neg /\ ~ExactIsInt(x) THEN FTrunc(x) - 1 ELSE FTrunc(x)

\* numpy's rint: the nearest integer, ties to even, as a float
FRint(x) ==
    IF FIsZero(x) \/ x.exp >= 0 THEN x
    ELSE LET sh  == -x.exp
             q   == BigShr(x.man, sh)
             rem == BigSub(x.man, BigShl(q, sh))
             c   == BigCmp(rem, BigShl(<<1>>, sh - 1))
             up  == c > 0 \/ (c = 0 /\ BigLow(q) % 2 = 1)
         IN  FRound(x.neg, IF up THEN BigAdd(q, <<1>>) ELSE q, 0, FALSE)

\* numpy's round(x, d): rint(x * 10^d) / 10^d
FRoundDecimals(x, d) == FDiv(FRint(FMul(x, FInt(10^d))), FInt(10^d))

----------------------------------------------------------------------------
(* The bounds of the model.                                                *)

MaxGames == 2           \* rows of a schedule
MaxGoals == 1           \* goals of a side in a schedule row
MaxRecordGames == 3     \* total_games of a record handed to the predictor
MaxSimulations == 6     \* num_simulations of simulate_scores run alone
MaxLongSimulations == 11 \* num_simulations of the long runs of two scores
DefaultSimulations == 2 \* stands for main()'s num_simulations = 100000
MaxPlayers == 1         \* rows of a player table
MaxPlayerGames == 3     \* GP of a player
MaxPlayerGoals == 2     \* G of a player

Teams == {"BAR", "ERI", "FLT"}

NaN == -1               \* pandas' missing value, apart from every count

None == <<>>            \* a result not computed yet: apart from every record

NoName == ""            \* a name or a date not entered yet

DataFiles == {"stats_file", "schedule_file"}

NoError == "none"

----------------------------------------------------------------------------
(* calculate_team_records                                                  *)

GoalValues == (0..MaxGoals) \cup {NaN}

\* the schedule rows: no team plays itself; goals are missing for a game
\* not played yet
ScheduleRows(dates) ==
    { r \in [Date : dates, HomeTeam : Teams, AwayTeam : Teams,
             HomeGoals : GoalValues, AwayGoals : GoalValues] :
         r.HomeTeam # r.AwayTeam }

\* GoalsGreater with a fault: >= for >
GoalsGreaterOrEqual(x, y) == x # NaN /\ y # NaN /\ x >= y

\* Python's > on two goal counts: False whenever one of them is NaN
GoalsGreater(x, y) == x # NaN /\ y # NaN /\ x > y

NewRecord == [wins |-> 0, losses |-> 0, total_games |-> 0]

\* UpdateRecord with a fault: total_games counted in the branch of the win only
UpdateRecordCountingWins(records, team, goals_for, goals_against) ==
    LET old == IF team \in DOMAIN records THEN records[team] ELSE NewRecord
        new == IF GoalsGreater(goals_for, goals_against)
               THEN [old EXCEPT !.total_games = @ + 1, !.wins = @ + 1]
               ELSE [old EXCEPT !.losses = @ + 1]
    IN  [t \in DOMAIN records \cup {team} |->
            IF t = team THEN new ELSE records[t]]

\* lines 54-60 for one (team, goals_for, goals_against)
UpdateRecord(records, team, goals_for, goals_against) ==
    LET old == IF team \in DOMAIN records THEN records[team] ELSE NewRecord
        new == IF GoalsGreater(goals_for, goals_against)
               THEN [old EXCEPT !.total_games = @ + 1, !.wins = @ + 1]
               ELSE [old EXCEPT !.total_games = @ + 1, !.losses = @ + 1]
    IN  [t \in DOMAIN records \cup {team} |->
            IF t = team THEN new ELSE records[t]]

\* the body of the loop over the rows: the home team, then the away team
ProcessRow(records, row) ==
    UpdateRecord(
        UpdateRecord(records, row.HomeTeam, row.HomeGoals, row.AwayGoals),
        row.AwayTeam, row.AwayGoals, row.HomeGoals)

RECURSIVE FoldRows(_, _)
FoldRows(records, rows) ==
    IF rows = <<>> THEN records
    ELSE FoldRows(ProcessRow(records, Head(rows)), Tail(rows))

EmptyMap == <<>>

calculate_team_records(schedule) == FoldRows(EmptyMap, schedule)

----------------------------------------------------------------------------
(* predict_game_winner                                                     *)

\* the record of a team that team_records does not hold (lines 69-70)
DefaultRecord == [wins |-> 0, losses |-> 0, total_games |-> 1]

RecordOf(records, team) ==
    IF team \in DOMAIN records THEN records[team] ELSE DefaultRecord

\* lines 72-79: total_points + avg_rank * 10 + (wins / total_games) * 100
Strength(stats, record) ==
    FAdd(FAdd(FInt(stats.total_points), FMul(stats.avg_rank, FInt(10))),
         FMul(FDiv(FInt(record.wins), FInt(record.total_games)), FInt(100)))

DigitChars == <<"0", "1", "2", "3", "4", "5", "6", "7", "8", "9">>

RECURSIVE Digits(_)
\* the decimal digits of n >= 0, as the sequence of its characters
Digits(n) ==
    IF n < 10 THEN <<DigitChars[n + 1]>>
    ELSE Digits(n \div 10) \o <<DigitChars[(n % 10) + 1]>>

\* str(n) of an integer, as the sequence of its characters
Str(n) == IF n < 0 THEN <<"-">> \o Digits(-n) ELSE Digits(n)

\* lines 92-93: f"+{odds}" if odds > 0 else str(odds)
OddsString(odds) == IF odds > 0 THEN <<"+">> \o Str(odds) ELSE Str(odds)

\* lines 86 and 89: -int(100 / p)
FavoriteOdds(p) == -FTrunc(FDiv(FInt(100), p))

\* lines 87 and 90: int(100 * ((1 - p) / p))
UnderdogOdds(p) == FTrunc(FMul(FInt(100), FDiv(FSub(FInt(1), p), p)))

Raised(exception) == [status |-> exception]

\* WinProbability with a fault: Python's floor division
WinProbabilityFloored(strength, total_strength) ==
    FInt(FFloor(FDiv(strength, total_strength)))

\* lines 82-83: strength / total_strength
WinProbability(strength, total_strength) == FDiv(strength, total_strength)

\* lines 81-97, for strengths whose sum is not zero
PredictFromStrengths(home, away, home_strength, away_strength) ==
    LET total_strength == FAdd(home_strength, away_strength)
        home_prob == WinProbability(home_strength, total_strength)
        away_prob == WinProbability(away_strength, total_strength)
        home_odds == IF FGt(home_prob, away_prob)
                     THEN FavoriteOdds(home_prob) ELSE UnderdogOdds(home_prob)
        away_odds == IF FGt(home_prob, away_prob)
                     THEN UnderdogOdds(away_prob) ELSE FavoriteOdds(away_prob)
    IN  \* numpy divides by zero to inf, and int(inf) raises
        IF FIsZero(home_prob) \/ FIsZero(away_prob)
        THEN Raised("OverflowError")
        ELSE [status    |-> "returned",
              winner    |-> IF FGt(home_prob, away_prob) THEN home ELSE away,
              home_odds |-> OddsString(home_odds),
              away_odds |-> OddsString(away_odds),
              home_prob |-> home_prob,
              away_prob |-> away_prob]

\* predict_game_winner with a fault: a team without a summary is given an
\* empty one, as a team without a record is given the default record
predict_game_winner_default_summary(home, away, stats, records) ==
    LET summary(team) == IF team \in DOMAIN stats THEN stats[team]
                         ELSE [total_points |-> 0, avg_rank |-> FZero]
        home_strength == Strength(summary(home), RecordOf(records, home))
        away_strength == Strength(summary(away), RecordOf(records, away))
    IN  IF FIsZero(FAdd(home_strength, away_strength))
        THEN Raised("ValueError")
        ELSE PredictFromStrengths(home, away, home_strength, away_strength)

\* lines 64-97. team_stats.loc[team] raises KeyError for a team without a
\* summary. With total_strength = 0 numpy yields inf, -inf or nan for the
\* probabilities, the underdog's (1 - p) / p is nan, and int(nan) raises
\* ValueError.
predict_game_winner(home, away, stats, records) ==
    IF home \notin DOMAIN stats \/ away \notin DOMAIN stats
    THEN Raised("KeyError")
    ELSE IF RecordOf(records, home).total_games = 0
            \/ RecordOf(records, away).total_games = 0
    THEN Raised("ZeroDivisionError")
    ELSE LET home_strength == Strength(stats[home], RecordOf(records, home))
             away_strength == Strength(stats[away], RecordOf(records, away))
         IN  IF FIsZero(FAdd(home_strength, away_strength))
             THEN Raised("ValueError")
             ELSE PredictFromStrengths(home, away,
                                       home_strength, away_strength)

----------------------------------------------------------------------------
(* simulate_scores                                                         *)

\* lines 108-110: the Result column of a trial <<HomeScore, AwayScore>>
Result(trial) ==
    IF trial[1] > trial[2] THEN "HomeWin"
    ELSE IF trial[2] > trial[1] THEN "AwayWin"
    ELSE "Draw"

\* HomeShutout with a fault: the test of the home score left out
HomeShutoutAnyHomeScore(trial) == trial[2] = 0

\* line 112: the rows counted for home_shutout_prob
HomeShutout(trial) == trial[2] = 0 /\ trial[1] > 0

\* line 113: the rows counted for away_shutout_prob
AwayShutout(trial) == trial[1] = 0 /\ trial[2] > 0

\* len(score_counts[mask]) for the two masks
HomeShutoutCount(trials) ==
    BagCardinality([t \in {x \in DOMAIN trials : HomeShutout(x)} |-> trials[t]])

AwayShutoutCount(trials) ==
    BagCardinality([t \in {x \in DOMAIN trials : AwayShutout(x)} |-> trials[t]])

\* count / n * 100
Percent(count, n) == FMul(FDiv(FInt(count), FInt(n)), FInt(100))

\* ScorelineProbability with a fault: the factor 100 left out
ScorelineFraction(count, total_simulations) ==
    FRoundDecimals(FDiv(FInt(count), FInt(total_simulations)), 2)

\* lines 129-130: (Count / total_simulations * 100).round(2)
ScorelineProbability(count, total_simulations) ==
    FRoundDecimals(Percent(count, total_simulations), 2)

\* the order of the group keys: by the first column, then by the second
KeyBefore(k, j) == k[1] < j[1] \/ (k[1] = j[1] /\ k[2] < j[2])

RECURSIVE SortKeys(_)
SortKeys(keys) ==
    IF keys = {} THEN <<>>
    ELSE LET first == CHOOSE k \in keys :
                         \A j \in keys : j = k \/ KeyBefore(k, j)
         IN  <<first>> \o SortKeys(keys \ {first})

\* value_counts(columns, sort=False) of the trials with the given Result:
\* one row for each distinct pair, in the order of the keys. A key is
\* <<HomeScore, AwayScore>> for the home table, <<AwayScore, HomeScore>> for
\* the away table.
ValueCounts(trials, result, swap) ==
    LET rows == {t \in DOMAIN trials : Result(t) = result}
        keys == {IF swap THEN <<t[2], t[1]>> ELSE t : t \in rows}
        sorted == SortKeys(keys)
    IN  [i \in 1..Len(sorted) |->
            [key   |-> sorted[i],
             Count |-> trials[IF swap THEN <<sorted[i][2], sorted[i][1]>>
                              ELSE sorted[i]]]]

\* the first row of the frame holding the greatest Count
FirstLargest(frame) ==
    CHOOSE i \in 1..Len(frame) :
        /\ \A j \in 1..Len(frame) : frame[j].Count <= frame[i].Count
        /\ \A j \in 1..(i - 1) : frame[j].Count < frame[i].Count

RECURSIVE NLargest(_, _)
\* nlargest(n, 'Count'): the n rows of greatest Count, greatest first, rows
\* of equal Count in the order of the frame
NLargest(n, frame) ==
    IF n = 0 \/ frame = <<>> THEN <<>>
    ELSE LET i == FirstLargest(frame)
         IN  <<frame[i]>> \o
             NLargest(n - 1, SubSeq(frame, 1, i - 1) \o
                             SubSeq(frame, i + 1, Len(frame)))

\* lines 115-120 and 129
TopHomeWins(trials) ==
    LET top == NLargest(3, ValueCounts(trials, "HomeWin", FALSE))
    IN  [i \in 1..Len(top) |->
            [HomeScore |-> top[i].key[1], AwayScore |-> top[i].key[2],
             Count |-> top[i].Count,
             Probability |->
                 ScorelineProbability(top[i].Count, BagCardinality(trials))]]

\* lines 121-126 and 130
TopAwayWins(trials) ==
    LET top == NLargest(3, ValueCounts(trials, "AwayWin", TRUE))
    IN  [i \in 1..Len(top) |->
            [AwayScore |-> top[i].key[1], HomeScore |-> top[i].key[2],
             Count |-> top[i].Count,
             Probability |->
                 ScorelineProbability(top[i].Count, BagCardinality(trials))]]

\* lines 107-132: what simulate_scores returns for the trials drawn
SimulationResult(trials, n) ==
    [top_home_wins |-> TopHomeWins(trials),
     top_away_wins |-> TopAwayWins(trials),
     home_shutout_prob |-> Percent(HomeShutoutCount(trials), n),
     away_shutout_prob |-> Percent(AwayShutoutCount(trials), n)]

\* lines 103-104: the rate handed to np.random.poisson
PoissonRate(prob) == FMul(prob, FInt(5))

\* what np.random.poisson(rate) can draw: 0 alone for a rate of zero, every
\* count for a positive rate. A negative rate raises.
PoissonValues(rate) == IF FIsZero(rate) THEN {0} ELSE Nat

----------------------------------------------------------------------------
(* calculate_team_stats and calculate_player_probabilities                 *)

\* get_ohl_stats.py: RNK = 2*G + 1.5*A + 1*(+/-) - 1*PIM, a multiple of 0.5
Rank(g, a, plus_minus, pim) ==
    FScaled(4 * g + 3 * a + 2 * plus_minus - 2 * pim, -1)

RECURSIVE SumInt(_, _)
SumInt(rows, column) ==
    IF rows = <<>> THEN 0
    ELSE Head(rows)[column] + SumInt(Tail(rows), column)

RECURSIVE SumFloat(_, _)
SumFloat(rows, column) ==
    IF rows = <<>> THEN FZero
    ELSE FAdd(Head(rows)[column], SumFloat(Tail(rows), column))

RowsOfTeam(stats, team) == SelectSeq(stats, LAMBDA row : row.Team = team)

\* lines 22-40: one summary for each team of the table; the columns that no
\* later step reads (Pts/G, PPG, PPA) are left out
calculate_team_stats(stats) ==
    [team \in {stats[i].Team : i \in 1..Len(stats)} |->
        LET rows == RowsOfTeam(stats, team)
        IN  [total_goals |-> SumInt(rows, "G"),
             total_assists |-> SumInt(rows, "A"),
             total_points |-> SumInt(rows, "PTS"),
             total_penalty_minutes |-> SumInt(rows, "PIM"),
             avg_rank |-> FDiv(SumFloat(rows, "RNK"), FInt(Len(rows)))]]

\* line 139: GP with 0 and NaN replaced by 1
GamesPlayed(gp) == IF gp = 0 \/ gp = NaN THEN 1 ELSE gp

\* ClipUpper with a fault: no clip
ClipUpperMissing(x) == x

\* x.clip(upper=1.0)
ClipUpper(x) == IF FGt(x, FInt(1)) THEN FInt(1) ELSE x

\* lines 142-143: ((count / GP).clip(upper=1.0) * 100).round(1)
PlayerProbability(count, gp) ==
    FRoundDecimals(
        FMul(ClipUpper(FDiv(FInt(count), FInt(GamesPlayed(gp)))), FInt(100)),
        1)

\* the first row of the frame holding the greatest PTS
FirstMostPoints(frame) ==
    CHOOSE i \in 1..Len(frame) :
        /\ \A j \in 1..Len(frame) : frame[j].PTS <= frame[i].PTS
        /\ \A j \in 1..(i - 1) : frame[j].PTS < frame[i].PTS

RECURSIVE NLargestPoints(_, _)
\* nlargest(n, 'PTS')
NLargestPoints(n, frame) ==
    IF n = 0 \/ frame = <<>> THEN <<>>
    ELSE LET i == FirstMostPoints(frame)
         IN  <<frame[i]>> \o
             NLargestPoints(n - 1, SubSeq(frame, 1, i - 1) \o
                                   SubSeq(frame, i + 1, Len(frame)))

\* lines 134-148
calculate_player_probabilities(stats, team) ==
    LET top == NLargestPoints(3, RowsOfTeam(stats, team))
    IN  [i \in 1..Len(top) |->
            [Name |-> top[i].Name, Pos |-> top[i].Pos,
             GP |-> GamesPlayed(top[i].GP), G |-> top[i].G, A |-> top[i].A,
             GoalProb |-> PlayerProbability(top[i].G, top[i].GP),
             AssistProb |-> PlayerProbability(top[i].A, top[i].GP)]]

----------------------------------------------------------------------------
(* The state machines.  Each function is run on its own from every input   *)
(* of a bounded set, and main() runs them in sequence.                     *)

\* calculate_team_records alone: one action for each turn of its loop
InitRecords ==
    /\ pc = "records"
    /\ error = NoError
    /\ data_files = DataFiles
    /\ stats_df = <<>>
    /\ schedule_df = <<>>
    /\ iterrows = <<>>
    /\ team_stats = EmptyMap
    /\ team_records = EmptyMap
    /\ selected_date = NoName
    /\ games_on_date = <<>>
    /\ home_team = NoName
    /\ away_team = NoName
    /\ prediction = None
    /\ num_simulations = 0
    /\ score_simulations = EmptyBag
    /\ simulation = None
    /\ top_players = None
    /\ report_file = None

\* line 46 takes the next row of the schedule, lines 47-60 count it
RecordsRow ==
    /\ pc = "records"
    /\ Len(iterrows) < MaxGames
    /\ \E row \in ScheduleRows({"2025-01-01"}) :
          /\ iterrows' = Append(iterrows, row)
          /\ team_records' = ProcessRow(team_records, row)
    /\ UNCHANGED <<data_files, pc, error, stats_df, schedule_df, team_stats,
                   selected_date, games_on_date, home_team, away_team,
                   prediction, num_simulations, score_simulations,
                   simulation, top_players, report_file>>

\* line 62: the schedule has no more rows
RecordsReturn ==
    /\ pc = "records"
    /\ pc' = "records_returned"
    /\ UNCHANGED <<data_files, error, stats_df, schedule_df, iterrows,
                   team_stats, team_records, selected_date, games_on_date,
                   home_team, away_team, prediction, num_simulations,
                   score_simulations, simulation, top_players, report_file>>

NextRecords == RecordsRow \/ RecordsReturn

SpecRecords == InitRecords /\ [][NextRecords]_vars

\* predict_game_winner alone
TotalPointsValues == {0, 150}

AvgRankValues == {FScaled(-10, -1), FZero}          \* -5.0 and 0.0

Summaries ==
    [total_points : TotalPointsValues, avg_rank : AvgRankValues]

Records ==
    { [wins |-> w, losses |-> g - w, total_games |-> g] :
         <<w, g>> \in { x \in (0..MaxRecordGames) \X (1..MaxRecordGames) :
                          x[1] <= x[2] } }

InitPredict ==
    /\ pc = "predict"
    /\ error = NoError
    /\ data_files = DataFiles
    /\ stats_df = <<>>
    /\ schedule_df = <<>>
    /\ iterrows = <<>>
    /\ home_team = "BAR"
    /\ away_team = "ERI"
    /\ team_stats \in [{"BAR", "ERI"} -> Summaries]
    /\ team_records \in UNION { [D -> Records] : D \in SUBSET {"BAR", "ERI"} }
    /\ selected_date = NoName
    /\ games_on_date = <<>>
    /\ prediction = None
    /\ num_simulations = 0
    /\ score_simulations = EmptyBag
    /\ simulation = None
    /\ top_players = None
    /\ report_file = None

PredictCall ==
    /\ pc = "predict"
    /\ prediction' = predict_game_winner(home_team, away_team,
                                         team_stats, team_records)
    /\ error' = IF prediction'.status = "returned" THEN NoError
                ELSE prediction'.status
    /\ pc' = "predicted"
    /\ UNCHANGED <<data_files, stats_df, schedule_df, iterrows, team_stats,
                   team_records, selected_date, games_on_date, home_team,
                   away_team, num_simulations, score_simulations, simulation,
                   top_players, report_file>>

NextPredict == PredictCall

SpecPredict == InitPredict /\ [][NextPredict]_vars

\* simulate_scores alone, from probabilities predict_game_winner returns
SimPredictions ==
    {PredictFromStrengths("BAR", "ERI", FInt(150), FInt(100)),
     PredictFromStrengths("BAR", "ERI", FInt(-50), FInt(150))}

\* the score pairs drawn in the runs of at most MaxSimulations trials
SimScorelines ==
    {<<0, 0>>, <<1, 0>>, <<2, 0>>, <<3, 0>>, <<2, 1>>, <<0, 1>>, <<1, 2>>}

\* the score pairs drawn in the long runs and in main()
ShortScorelines == (0..1) \X (0..1)

InitSim(counts) ==
    /\ pc = "simulate"
    /\ error = NoError
    /\ data_files = DataFiles
    /\ stats_df = <<>>
    /\ schedule_df = <<>>
    /\ iterrows = <<>>
    /\ team_stats = EmptyMap
    /\ team_records = EmptyMap
    /\ selected_date = NoName
    /\ games_on_date = <<>>
    /\ home_team = "BAR"
    /\ away_team = "ERI"
    /\ prediction \in SimPredictions
    /\ num_simulations \in counts
    /\ score_simulations = EmptyBag
    /\ simulation = None
    /\ top_players = None
    /\ report_file = None

\* lines 102-105, one turn of the loop: np.random.poisson raises ValueError
\* for a negative rate, and draws the home score, then the away score. The
\* pairs drawn are kept to those of scorelines.
DrawTrial(scorelines) ==
    /\ pc = "simulate"
    /\ BagCardinality(score_simulations) < num_simulations
    /\ LET home_rate == PoissonRate(prediction.home_prob)
           away_rate == PoissonRate(prediction.away_prob)
       IN  IF FGt(FZero, home_rate) \/ FGt(FZero, away_rate)
           THEN /\ error' = "ValueError"
                /\ pc' = "failed"
                /\ UNCHANGED score_simulations
           ELSE /\ \E trial \in scorelines :
                      /\ trial[1] \in PoissonValues(home_rate)
                      /\ trial[2] \in PoissonValues(away_rate)
                      /\ score_simulations' =
                             score_simulations (+) SetToBag({trial})
                /\ UNCHANGED <<pc, error>>
    /\ UNCHANGED <<data_files, stats_df, schedule_df, iterrows, team_stats,
                   team_records, selected_date, games_on_date, home_team,
                   away_team, prediction, num_simulations, simulation,
                   top_players, report_file>>

\* lines 107-132, after the last turn of the loop
Aggregate(return_pc) ==
    /\ pc = "simulate"
    /\ BagCardinality(score_simulations) = num_simulations
    /\ simulation' = SimulationResult(score_simulations, num_simulations)
    /\ pc' = return_pc
    /\ UNCHANGED <<data_files, error, stats_df, schedule_df, iterrows,
                   team_stats, team_records, selected_date, games_on_date,
                   home_team, away_team, prediction, num_simulations,
                   score_simulations, top_players, report_file>>

NextSim == DrawTrial(SimScorelines) \/ Aggregate("simulated")

SpecSim == InitSim(1..MaxSimulations) /\ [][NextSim]_vars

NextSimLong == DrawTrial(ShortScorelines) \/ Aggregate("simulated")

SpecSimLong == InitSim(1..MaxLongSimulations) /\ [][NextSimLong]_vars

\* calculate_player_probabilities alone
PlayerNames == <<"P1", "P2", "P3", "P4">>

AssistValues == {0, 1}

\* a row of the player table; PTS is goals plus assists
PlayerRow(name, team, gp, g, a, plus_minus, pim) ==
    [Name |-> name, Team |-> team, Pos |-> "C", GP |-> gp, G |-> g, A |-> a,
     PTS |-> g + a, PIM |-> pim, RNK |-> Rank(g, a, plus_minus, pim)]

PlayerTables ==
    UNION { { [i \in 1..n |->
                 PlayerRow(PlayerNames[i], c[i][1], c[i][2], c[i][3],
                           c[i][4], 0, 0)] :
              c \in [1..n -> {"BAR", "ERI"}
                             \X ((0..MaxPlayerGames) \cup {NaN})
                             \X (0..MaxPlayerGoals) \X AssistValues] } :
            n \in 1..MaxPlayers }

InitPlayers ==
    /\ pc = "players"
    /\ error = NoError
    /\ data_files = DataFiles
    /\ stats_df \in PlayerTables
    /\ schedule_df = <<>>
    /\ iterrows = <<>>
    /\ team_stats = EmptyMap
    /\ team_records = EmptyMap
    /\ selected_date = NoName
    /\ games_on_date = <<>>
    /\ home_team = "BAR"
    /\ away_team = "ERI"
    /\ prediction = None
    /\ num_simulations = 0
    /\ score_simulations = EmptyBag
    /\ simulation = None
    /\ top_players = None
    /\ report_file = None

\* lines 178-179
Players(return_pc) ==
    /\ pc = "players"
    /\ top_players' =
           [home |-> calculate_player_probabilities(stats_df, home_team),
            away |-> calculate_player_probabilities(stats_df, away_team)]
    /\ pc' = return_pc
    /\ UNCHANGED <<data_files, error, stats_df, schedule_df, iterrows,
                   team_stats, team_records, selected_date, games_on_date,
                   home_team, away_team, prediction, num_simulations,
                   score_simulations, simulation, report_file>>

NextPlayers == Players("projected")

SpecPlayers == InitPlayers /\ [][NextPlayers]_vars

\* main(): the files, the two prompts, and the chain of the functions
MainStats ==
    {<<PlayerRow("P1", "BAR", 3, 2, 1, 0, 0),
       PlayerRow("P2", "ERI", 0, 2, 0, 0, 0),
       PlayerRow("P3", "BAR", 2, 0, 1, 1, 0)>>,
     <<PlayerRow("P1", "BAR", 2, 0, 0, 0, 5),
       PlayerRow("P2", "ERI", 3, 1, 2, 0, 0)>>}

Game(date, home, away, home_goals, away_goals) ==
    [Date |-> date, HomeTeam |-> home, AwayTeam |-> away,
     HomeGoals |-> home_goals, AwayGoals |-> away_goals]

MainRows ==
    {Game("2025-01-01", "BAR", "ERI", 1, 0),
     Game("2025-01-01", "ERI", "FLT", NaN, NaN),
     Game("2025-01-02", "ERI", "BAR", 1, 1)}

MainSchedules ==
    UNION { [1..n -> MainRows] : n \in 0..MaxGames }

MainDates == {"2025-01-01", "2025-01-02", "2025-01-03"}

InitMain ==
    /\ pc = "main"
    /\ error = NoError
    /\ data_files \in {DataFiles, {"stats_file"}, {"schedule_file"}}
    /\ stats_df \in MainStats
    /\ schedule_df \in MainSchedules
    /\ iterrows = <<>>
    /\ team_stats = EmptyMap
    /\ team_records = EmptyMap
    /\ selected_date = NoName
    /\ games_on_date = <<>>
    /\ home_team = NoName
    /\ away_team = NoName
    /\ prediction = None
    /\ num_simulations = 0
    /\ score_simulations = EmptyBag
    /\ simulation = None
    /\ top_players = None
    /\ report_file = None

\* lines 256-258: load_data raises FileNotFoundError when a file is missing;
\* main() catches every exception, prints it and ends
Load ==
    /\ pc = "main"
    /\ IF data_files # DataFiles
       THEN /\ error' = "FileNotFoundError"
            /\ pc' = "failed"
            /\ UNCHANGED <<iterrows, team_stats, team_records>>
       ELSE /\ team_stats' = calculate_team_stats(stats_df)
            /\ iterrows' = schedule_df
            /\ team_records' = calculate_team_records(schedule_df)
            /\ pc' = "date"
            /\ UNCHANGED error
    /\ UNCHANGED <<data_files, stats_df, schedule_df, selected_date,
                   games_on_date, home_team, away_team, prediction,
                   num_simulations, score_simulations, simulation,
                   top_players, report_file>>

\* line 260 and lines 154-161: the date typed, and the games of that date
EnterDate ==
    /\ pc = "date"
    /\ \E date \in MainDates :
          /\ selected_date' = date
          /\ games_on_date' =
                 SelectSeq(schedule_df, LAMBDA game : game.Date = date)
    /\ pc' = IF games_on_date' = <<>> THEN "done" ELSE "select"
    /\ UNCHANGED <<data_files, error, stats_df, schedule_df, iterrows,
                   team_stats, team_records, home_team, away_team,
                   prediction, num_simulations, score_simulations,
                   simulation, top_players, report_file>>

\* lines 163-167: iloc counts from 0, or from the end for a negative index,
\* and raises IndexError outside the frame
SelectGame ==
    /\ pc = "select"
    /\ \E selected_game_index \in (-1)..MaxGames :
          LET n == Len(games_on_date)
              position == IF selected_game_index < 0
                          THEN n + selected_game_index + 1
                          ELSE selected_game_index + 1
          IN  IF position \in 1..n
              THEN /\ home_team' = games_on_date[position].HomeTeam
                   /\ away_team' = games_on_date[position].AwayTeam
                   /\ pc' = "predict"
                   /\ UNCHANGED error
              ELSE /\ error' = "IndexError"
                   /\ pc' = "failed"
                   /\ UNCHANGED <<home_team, away_team>>
    /\ UNCHANGED <<data_files, stats_df, schedule_df, iterrows, team_stats,
                   team_records, selected_date, games_on_date, prediction,
                   num_simulations, score_simulations, simulation,
                   top_players, report_file>>

\* lines 170-172 and the entry of simulate_scores (line 175)
Predict ==
    /\ pc = "predict"
    /\ prediction' = predict_game_winner(home_team, away_team,
                                         team_stats, team_records)
    /\ IF prediction'.status = "returned"
       THEN /\ num_simulations' = DefaultSimulations
            /\ pc' = "simulate"
            /\ UNCHANGED error
       ELSE /\ error' = prediction'.status
            /\ pc' = "failed"
            /\ UNCHANGED num_simulations
    /\ UNCHANGED <<data_files, stats_df, schedule_df, iterrows, team_stats,
                   team_records, selected_date, games_on_date, home_team,
                   away_team, score_simulations, simulation, top_players,
                   report_file>>

\* lines 181-211 and 215-251: the name of the file and the values its lines
\* are formatted from
WriteReport ==
    /\ pc = "report"
    /\ report_file' =
           [filename |-> home_team \o "_vs_" \o away_team \o "_Report_"
                         \o selected_date \o ".txt",
            home_team |-> home_team, away_team |-> away_team,
            winner |-> prediction.winner,
            home_odds |-> prediction.home_odds,
            away_odds |-> prediction.away_odds,
            top_home_wins |-> simulation.top_home_wins,
            top_away_wins |-> simulation.top_away_wins,
            home_shutout_prob |-> simulation.home_shutout_prob,
            away_shutout_prob |-> simulation.away_shutout_prob,
            home_top_players |-> top_players.home,
            away_top_players |-> top_players.away]
    /\ pc' = "done"
    /\ UNCHANGED <<data_files, error, stats_df, schedule_df, iterrows,
                   team_stats, team_records, selected_date, games_on_date,
                   home_team, away_team, prediction, num_simulations,
                   score_simulations, simulation, top_players>>

NextMain ==
    \/ Load
    \/ EnterDate
    \/ SelectGame
    \/ Predict
    \/ DrawTrial(ShortScorelines)
    \/ Aggregate("players")
    \/ Players("report")
    \/ WriteReport

SpecMain == InitMain /\ [][NextMain]_vars

----------------------------------------------------------------------------
(* The claims about calculate_team_records, checked under SpecRecords.     *)

Numeric(row) == row.HomeGoals # NaN /\ row.AwayGoals # NaN

\* the record of a team before its first game is counted
RecordBefore(records, team) ==
    IF team \in DOMAIN records THEN records[team] ELSE NewRecord

\* the record with one more win, and with one more loss
WithWin(record) == [record EXCEPT !.wins = @ + 1, !.total_games = @ + 1]

WithLoss(record) == [record EXCEPT !.losses = @ + 1, !.total_games = @ + 1]

\* C9: after each row processed, every record of the mapping has wins >= 0,
\* losses >= 0, total_games = wins + losses and total_games >= 1, so that
\* the win ratio of predict_game_winner never divides by zero, for a team of
\* the mapping as for a team given the default record.
RecordsWellFormed ==
    /\ \A team \in DOMAIN team_records :
          /\ team_records[team].wins >= 0
          /\ team_records[team].losses >= 0
          /\ team_records[team].total_games =
                 team_records[team].wins + team_records[team].losses
          /\ team_records[team].total_games >= 1
    /\ \A team \in Teams : RecordOf(team_records, team).total_games # 0

\* C9 happens: a team of the mapping has won a game and lost another
RecordWithWinAndLoss ==
    \E team \in DOMAIN team_records :
        team_records[team].wins >= 1 /\ team_records[team].losses >= 1

\* C8: each row taken, in the order of the schedule, with numeric goals
\* credits one win to the team with strictly more goals and one loss to the
\* other, or one loss to both and no win when the goals are equal; no other
\* record changes; a row met before is credited again like any other.
RowsCreditedInOrder ==
    [][ iterrows' # iterrows =>
          LET row  == iterrows'[Len(iterrows')]
              home == RecordBefore(team_records, row.HomeTeam)
              away == RecordBefore(team_records, row.AwayTeam)
          IN  /\ iterrows' = Append(iterrows, row)
              /\ \A team \in DOMAIN team_records \ {row.HomeTeam, row.AwayTeam} :
                    /\ team \in DOMAIN team_records'
                    /\ team_records'[team] = team_records[team]
              /\ DOMAIN team_records' =
                     DOMAIN team_records \cup {row.HomeTeam, row.AwayTeam}
              /\ Numeric(row) =>
                    /\ row.HomeGoals > row.AwayGoals =>
                          /\ team_records'[row.HomeTeam] = WithWin(home)
                          /\ team_records'[row.AwayTeam] = WithLoss(away)
                    /\ row.HomeGoals < row.AwayGoals =>
                          /\ team_records'[row.HomeTeam] = WithLoss(home)
                          /\ team_records'[row.AwayTeam] = WithWin(away)
                    /\ row.HomeGoals = row.AwayGoals =>
                          /\ team_records'[row.HomeTeam] = WithLoss(home)
                          /\ team_records'[row.AwayTeam] = WithLoss(away)
      ]_vars

\* C8 happens: the same drawn game twice in the schedule, and two losses
\* and no win for each of its teams
TieCountedTwice ==
    /\ Len(iterrows) = 2
    /\ iterrows[1] = iterrows[2]
    /\ Numeric(iterrows[1])
    /\ iterrows[1].HomeGoals = iterrows[1].AwayGoals
    /\ team_records[iterrows[1].HomeTeam] =
           [wins |-> 0, losses |-> 2, total_games |-> 2]
    /\ team_records[iterrows[1].AwayTeam] =
           [wins |-> 0, losses |-> 2, total_games |-> 2]

\* C3, as the specification states it: the records are those of the schedule
\* with the rows of missing goals removed.
NullRowsContributeNothing ==
    team_records = calculate_team_records(SelectSeq(iterrows, Numeric))

----------------------------------------------------------------------------
(* The claims about predict_game_winner, checked under SpecPredict.        *)

Returned == pc = "predicted" /\ prediction.status = "returned"

IsNegative(odds_string) == Head(odds_string) = "-"

\* C1, as the specification states it: when the probabilities differ, one
\* and only one of the two odds is negative, it is the odds of the team
\* returned as winner, and that team has the strictly greater probability.
FavoriteAloneNegative ==
    (Returned /\ prediction.home_prob # prediction.away_prob) =>
        /\ IsNegative(prediction.home_odds) # IsNegative(prediction.away_odds)
        /\ IsNegative(prediction.home_odds) <=> prediction.winner = home_team
        /\ IsNegative(prediction.away_odds) <=> prediction.winner = away_team
        /\ prediction.winner = home_team <=>
               FGt(prediction.home_prob, prediction.away_prob)

\* floor(100 / p) for a float p # 0 below 2^52 in size, in exact arithmetic
FloorOfHundredOver(p) ==
    LET qr == BigDivMod(BigShl(<<100>>, -p.exp), p.man)
    IN  IF ~p.neg THEN BigToNat(qr[1])
        ELSE IF qr[2] = <<>> THEN -BigToNat(qr[1])
        ELSE -BigToNat(qr[1]) - 1

\* C4, as the specification states it: the favorite's odds are
\* -floor(100 / p), the underdog's are floor(100 * (1 - p) / p), which is
\* floor(100 / p) - 100, a positive one is rendered with a leading "+", and
\* the strengths 150 and 100 give "-166" and "+150".
OddsAsSpecified ==
    Returned =>
        LET home_favorite == prediction.winner = home_team
            favorite_odds ==
                -FloorOfHundredOver(IF home_favorite THEN prediction.home_prob
                                    ELSE prediction.away_prob)
            underdog_odds ==
                FloorOfHundredOver(IF home_favorite THEN prediction.away_prob
                                   ELSE prediction.home_prob) - 100
            rendered(odds) == IF odds > 0 THEN <<"+">> \o Str(odds)
                              ELSE Str(odds)
            home_strength ==
                Strength(team_stats[home_team],
                         RecordOf(team_records, home_team))
            away_strength ==
                Strength(team_stats[away_team],
                         RecordOf(team_records, away_team))
        IN  /\ prediction.home_odds =
                   rendered(IF home_favorite THEN favorite_odds
                            ELSE underdog_odds)
            /\ prediction.away_odds =
                   rendered(IF home_favorite THEN underdog_odds
                            ELSE favorite_odds)
            /\ (home_strength = FInt(150) /\ away_strength = FInt(100)) =>
                   /\ prediction.home_odds = <<"-", "1", "6", "6">>
                   /\ prediction.away_odds = <<"+", "1", "5", "0">>

\* whether x <= y, for values that need not be rounded
ExactLe(x, y) ==
    LET d == ExactAdd(x, FNeg(y)) IN FIsZero(d) \/ d.neg

\* C5, corrected: home_prob + away_prob is 1 up to the rounding of the two
\* divisions and of the total: in exact arithmetic it differs from 1 by at
\* most 2^-51 * (|home_prob| + |away_prob|).
ProbabilitiesSumNearOne ==
    Returned =>
        LET sum   == ExactAdd(prediction.home_prob, prediction.away_prob)
            off   == ExactAdd(sum, FNeg(FInt(1)))
            sizes == ExactAdd(FAbs(prediction.home_prob),
                              FAbs(prediction.away_prob))
        IN  ExactLe(FAbs(off), [sizes EXCEPT !.exp = @ - 51])

\* C5 happens: two positive probabilities whose float sum is not 1.0
PositiveProbabilitiesOffOne ==
    /\ Returned
    /\ FGt(prediction.home_prob, FZero)
    /\ FGt(prediction.away_prob, FZero)
    /\ FAdd(prediction.home_prob, prediction.away_prob) # FInt(1)

\* C5, as the specification states it: home_prob + away_prob = 1 and
\* away_prob = 1 - home_prob, in floats.
ProbabilitiesSumToOne ==
    Returned =>
        /\ FAdd(prediction.home_prob, prediction.away_prob) = FInt(1)
        /\ prediction.away_prob = FSub(FInt(1), prediction.home_prob)

----------------------------------------------------------------------------
(* The claims about simulate_scores: the shutouts under SpecSimLong, the   *)
(* tables of scorelines under SpecSim.                                     *)

\* the trials counted as shutouts, each as often as it was drawn
ShutoutTrials(home_side) ==
    LET shutouts == {t \in DOMAIN score_simulations :
                        IF home_side THEN t[2] = 0 /\ t[1] > 0
                        ELSE t[1] = 0 /\ t[2] > 0}
    IN  BagCardinality([t \in shutouts |-> score_simulations[t]])

\* the trials sort into wins of the home side, wins of the away side and
\* draws, every shutout of a side is a win of that side, and no trial is a
\* shutout of both sides
TrialsPartitioned ==
    \A t \in DOMAIN score_simulations :
        /\ Result(t) \in {"HomeWin", "AwayWin", "Draw"}
        /\ Result(t) = "HomeWin" <=> t[1] > t[2]
        /\ Result(t) = "AwayWin" <=> t[2] > t[1]
        /\ Result(t) = "Draw" <=> t[1] = t[2]
        /\ HomeShutout(t) <=> (t[2] = 0 /\ t[1] > 0)
        /\ AwayShutout(t) <=> (t[1] = 0 /\ t[2] > 0)
        /\ HomeShutout(t) => Result(t) = "HomeWin"
        /\ AwayShutout(t) => Result(t) = "AwayWin"
        /\ ~(HomeShutout(t) /\ AwayShutout(t))

\* the two shutout counts are those of the trials and together do not
\* exceed num_simulations; each percentage is the float count / n * 100
ShutoutCountsWithinTrials ==
    /\ HomeShutoutCount(score_simulations) = ShutoutTrials(TRUE)
    /\ AwayShutoutCount(score_simulations) = ShutoutTrials(FALSE)
    /\ ShutoutTrials(TRUE) + ShutoutTrials(FALSE)
           <= BagCardinality(score_simulations)
    /\ BagCardinality(score_simulations) <= num_simulations
    /\ pc = "simulated" =>
          /\ simulation.home_shutout_prob =
                 FMul(FDiv(FInt(ShutoutTrials(TRUE)), FInt(num_simulations)),
                      FInt(100))
          /\ simulation.away_shutout_prob =
                 FMul(FDiv(FInt(ShutoutTrials(FALSE)), FInt(num_simulations)),
                      FInt(100))

\* C6, corrected: the trials are partitioned, the shutout counts together
\* do not exceed num_simulations, each shutout percentage lies in [0, 100],
\* and the two percentages add up to at most 100 + 2^-45: the roundings of
\* the two quotients can carry the sum past 100.
ShutoutsConsistent ==
    /\ TrialsPartitioned
    /\ ShutoutCountsWithinTrials
    /\ pc = "simulated" =>
          /\ FLe(FZero, simulation.home_shutout_prob)
          /\ FLe(simulation.home_shutout_prob, FInt(100))
          /\ FLe(FZero, simulation.away_shutout_prob)
          /\ FLe(simulation.away_shutout_prob, FInt(100))
          /\ ExactLe(ExactAdd(simulation.home_shutout_prob,
                              simulation.away_shutout_prob),
                     FAdd(FInt(100), FScaled(1, -45)))

\* C6 happens: shutouts of both sides whose percentages add up to more than
\* 100 in floats
ShutoutSumAboveHundred ==
    /\ pc = "simulated"
    /\ ShutoutTrials(TRUE) >= 1
    /\ ShutoutTrials(FALSE) >= 1
    /\ FGt(FAdd(simulation.home_shutout_prob, simulation.away_shutout_prob),
           FInt(100))

\* C6, as the specification states it: the same, with a sum of the two
\* percentages that never exceeds 100.
ShutoutSumWithinHundred ==
    /\ TrialsPartitioned
    /\ ShutoutCountsWithinTrials
    /\ pc = "simulated" =>
          FLe(FAdd(simulation.home_shutout_prob,
                   simulation.away_shutout_prob), FInt(100))

\* the trials a side won, as the pairs <<HomeScore, AwayScore>>
WonTrials(home_side) ==
    {t \in DOMAIN score_simulations :
        IF home_side THEN t[1] > t[2] ELSE t[2] > t[1]}

SmallerOf(a, b) == IF a < b THEN a ELSE b

\* probability is count / n * 100 rounded to two decimals: the float
\* nearest to k / 100 for an integer k at most 1/2 from 10000 * count / n
RoundedToHundredths(probability, count, n) ==
    \E k \in {(10000 * count) \div n, ((10000 * count) \div n) + 1} :
        /\ 2 * k * n - 20000 * count <= n
        /\ 20000 * count - 2 * k * n <= n
        /\ probability = FDiv(FInt(k), FInt(100))

\* probability is the float count / n * 100
Unrounded(probability, count, n) ==
    probability = FMul(FDiv(FInt(count), FInt(n)), FInt(100))

\* a table of scorelines lists min(3, distinct won scorelines) different
\* pairs the side won, each with the number of its trials, none left out
\* having more trials than a listed one, and each with the rounded
\* probability, or with the unrounded one
TopTableOf(top, home_side, rounded) ==
    LET pair(i) == <<top[i].HomeScore, top[i].AwayScore>>
        listed  == {pair(i) : i \in 1..Len(top)}
    IN  /\ Len(top) = SmallerOf(3, Cardinality(WonTrials(home_side)))
        /\ Cardinality(listed) = Len(top)
        /\ listed \subseteq WonTrials(home_side)
        /\ \A i \in 1..Len(top) :
              /\ top[i].Count = CopiesIn(pair(i), score_simulations)
              /\ \A t \in WonTrials(home_side) \ listed :
                    CopiesIn(t, score_simulations) <= top[i].Count
              /\ IF rounded
                 THEN RoundedToHundredths(top[i].Probability, top[i].Count,
                                          BagCardinality(score_simulations))
                 ELSE Unrounded(top[i].Probability, top[i].Count,
                                BagCardinality(score_simulations))

\* C10, corrected: top_home_wins and top_away_wins are the tables of the
\* scorelines the home side and the away side won, with Probability the
\* percentage Count / trials * 100 rounded to two decimals.
TopScorelinesRounded ==
    pc = "simulated" =>
        /\ TopTableOf(simulation.top_home_wins, TRUE, TRUE)
        /\ TopTableOf(simulation.top_away_wins, FALSE, TRUE)

\* C10 happens: six trials, four different scorelines won by the home
\* side, three of them listed, the first with three trials, the others with
\* one trial each and the Probability 16.67
ThreeOfFourScorelinesListed ==
    /\ pc = "simulated"
    /\ num_simulations = 6
    /\ Cardinality(WonTrials(TRUE)) = 4
    /\ Len(simulation.top_home_wins) = 3
    /\ simulation.top_home_wins[1].Count = 3
    /\ simulation.top_home_wins[2].Count = 1
    /\ simulation.top_home_wins[2].Probability = FDiv(FInt(1667), FInt(100))

\* C10, as the specification states it: the same, with Probability the
\* unrounded Count / trials * 100.
TopScorelinesUnrounded ==
    pc = "simulated" =>
        /\ TopTableOf(simulation.top_home_wins, TRUE, FALSE)
        /\ TopTableOf(simulation.top_away_wins, FALSE, FALSE)

----------------------------------------------------------------------------
(* The claim about calculate_player_probabilities, under SpecPlayers.      *)

\* the row of the player table a projected row was computed from
StatsRowOf(projected) ==
    CHOOSE row \in {stats_df[i] : i \in 1..Len(stats_df)} :
        row.Name = projected.Name

\* the games divided by: 1 for a player without a game played
GamesDividedBy(row) == IF row.GP = NaN \/ row.GP = 0 THEN 1 ELSE row.GP

\* probability is min(count / games, 1) * 100 rounded to one decimal: the
\* float nearest to k / 10 for an integer k at most 1/2 from
\* 1000 * min(count / games, 1)
RoundedToTenths(probability, count, games) ==
    LET capped == SmallerOf(count, games)
    IN  \E k \in {(1000 * capped) \div games,
                  ((1000 * capped) \div games) + 1} :
            /\ 2 * k * games - 2000 * capped <= games
            /\ 2000 * capped - 2 * k * games <= games
            /\ probability = FDiv(FInt(k), FInt(10))

\* probability is the float min(count / games, 1) * 100
UnroundedShare(probability, count, games) ==
    probability = IF count >= games THEN FInt(100)
                  ELSE FMul(FDiv(FInt(count), FInt(games)), FInt(100))

\* every projected row of both teams divides by 1 for a player without a game
\* played, holds the rounded probabilities, or the unrounded ones, each in
\* [0, 100], and holds 100.0 for two goals in no game
ProjectionsOf(rounded) ==
    \A side \in {"home", "away"} :
        \A i \in 1..Len(top_players[side]) :
            LET projected == top_players[side][i]
                row == StatsRowOf(projected)
            IN  /\ projected.GP = GamesDividedBy(row)
                /\ projected.GP >= 1
                /\ IF rounded
                   THEN /\ RoundedToTenths(projected.GoalProb, row.G,
                                           GamesDividedBy(row))
                        /\ RoundedToTenths(projected.AssistProb, row.A,
                                           GamesDividedBy(row))
                   ELSE /\ UnroundedShare(projected.GoalProb, row.G,
                                          GamesDividedBy(row))
                        /\ UnroundedShare(projected.AssistProb, row.A,
                                          GamesDividedBy(row))
                /\ FLe(FZero, projected.GoalProb)
                /\ FLe(projected.GoalProb, FInt(100))
                /\ FLe(FZero, projected.AssistProb)
                /\ FLe(projected.AssistProb, FInt(100))
                /\ (row.GP = 0 /\ row.G = 2) =>
                       projected.GoalProb = FInt(100)

\* C7, corrected: a player with no game played is treated as having played
\* one, and goal_prob is min(goals / games_played', 1) * 100 rounded to one
\* decimal, in [0, 100]; assist_prob likewise; two goals in no game give
\* 100.0.
PlayerProbabilitiesRounded ==
    pc = "projected" => ProjectionsOf(TRUE)

\* C7 happens: one goal in three games, projected as 33.3
OneGoalInThreeGames ==
    /\ pc = "projected"
    /\ \E i \in 1..Len(top_players.home) :
          /\ StatsRowOf(top_players.home[i]).G = 1
          /\ StatsRowOf(top_players.home[i]).GP = 3
          /\ top_players.home[i].GoalProb = FDiv(FInt(333), FInt(10))

\* C7, as the specification states it: the same, with goal_prob and
\* assist_prob the unrounded min(count / games_played', 1) * 100.
PlayerProbabilitiesUnrounded ==
    pc = "projected" => ProjectionsOf(FALSE)

----------------------------------------------------------------------------
(* The claim about the pipeline of main(), under SpecMain.                 *)

MissingSummary ==
    /\ home_team # NoName
    /\ home_team \notin DOMAIN team_stats \/ away_team \notin DOMAIN team_stats

\* C2: when the home or the away team of the game in hand has no summary,
\* predict_game_winner raises KeyError, and in that run no trial is drawn,
\* simulate_scores returns nothing, no player projection is computed and no
\* report is written.
MissingSummaryStopsRun ==
    MissingSummary =>
        /\ pc \in {"predict", "failed"}
        /\ pc = "failed" =>
              error = "KeyError" /\ prediction = Raised("KeyError")
        /\ pc = "predict" => prediction = None
        /\ num_simulations = 0
        /\ score_simulations = EmptyBag
        /\ simulation = None
        /\ top_players = None
        /\ report_file = None

\* C2 happens: a run ended by the KeyError of a team without a summary
RunEndedByKeyError ==
    /\ MissingSummary
    /\ pc = "failed"
    /\ error = "KeyError"
    /\ prediction = Raised("KeyError")

====
